---- MODULE Spec2Model ----
(***************************************************************************)
(* Model of the connection manager (app/core/database.py) and of the       *)
(* security validator (app/services/security_validator.py) of the mantra   *)
(* recitation API.                                                         *)
(*                                                                         *)
(* Strings are TLA+ strings; Python's `in`, lower(), startswith() and      *)
(* split() are computed character by character with Len, SubSeq and \o.    *)
(***************************************************************************)
EXTENDS Integers, Sequences, FiniteSets, TLC

VARIABLES
    settings,        \* the Settings values get_connection_params reads
    connection,      \* SnowflakeConnection.connection: 0 (None) or a handle id
    engine,          \* SnowflakeConnection.engine: 0 (None) or an engine id
    session_maker,   \* SnowflakeConnection.session_maker: 0 (None) or the engine id it is bound to
    live,            \* warehouse handles opened and not yet closed
    disposed,        \* engines on which dispose() has been called
    nextEngine,      \* next engine id create_engine hands out
    cursors,         \* cursors opened on the stored connection and not closed
    attempts,        \* calls of snowflake.connector.connect made by the last connect()
    last,            \* the last operation: its name, what it raised, the handle it opened, what it returned
    storage_url,     \* classifier development: the URL under test
    role_arn,        \* classifier development: the role ARN under test
    private_result,  \* outcome of _is_bucket_private(storage_url)
    arn_result,      \* outcome of _is_valid_role_arn(role_arn)
    analysis,        \* outcome of _analyze_volume_security(_, storage_url, role_arn)
    checks_in,       \* scoring development: the status of each of the five checks
    score_in,        \* scoring development: a score to map to an overall status
    score_out,       \* audit_results["security_score"] computed from checks_in
    status_out,      \* audit_results["overall_status"] computed from score_out
    mapped,          \* the overall status the threshold chain gives score_in
    applied,         \* scoring development: the computations applied so far
    audit_trace,     \* what the last audit did: the checks that raised, the queries issued
    pc,              \* the standalone run: where secure_snowflake_setup.py is
    env,             \* the required environment variables that are set
    network,         \* the services the run has called over the network
    audit_results,   \* main()'s audit_results
    report,          \* main()'s report
    report_file,     \* the content of snowflake_security_report.txt
    success,         \* what main() returned
    exit_code,       \* the exit code of the process
    stdout,          \* the block headings main() has printed
    calls            \* the calls the last write operation made on its cursor and the connection

vars == << settings, connection, engine, session_maker, live, disposed,
           nextEngine, cursors, attempts, last,
           storage_url, role_arn, private_result, arn_result, analysis,
           checks_in, score_in, score_out, status_out, mapped, applied,
           audit_trace,
           pc, env, network, audit_results, report, report_file, success, exit_code, stdout,
           calls >>

managerVars == << settings, connection, engine, session_maker, live, disposed,
                  nextEngine, cursors, attempts, last >>

classifierVars == << storage_url, role_arn, private_result, arn_result, analysis >>

scoringVars == << checks_in, score_in, score_out, status_out, mapped, applied >>

auditVars == << audit_trace >>

mainVars == << pc, env, network, audit_results, report, report_file, success, exit_code, stdout >>

recitationVars == << calls >>

(***************************************************************************)
(* Bounds                                                                  *)
(***************************************************************************)
MaxHandles == 2
MaxEngines == 2
MaxCursors == 4
MaxVolumes == 2

(***************************************************************************)
(* Python string operations                                                *)
(***************************************************************************)
UpperLetters == "ABCDEFGHIJKLMNOPQRSTUVWXYZ"
LowerLetters == "abcdefghijklmnopqrstuvwxyz"

\* str.lower() on one character
LowerChar(c) ==
    IF \E i \in 1..26 : SubSeq(UpperLetters, i, i) = c
    THEN LET i == CHOOSE j \in 1..26 : SubSeq(UpperLetters, j, j) = c
         IN  SubSeq(LowerLetters, i, i)
    ELSE c

RECURSIVE Lower(_)
\* str.lower()
Lower(s) ==
    IF Len(s) = 0 THEN s
    ELSE LowerChar(SubSeq(s, 1, 1)) \o Lower(SubSeq(s, 2, Len(s)))

\* `sub in s` for two strings (sub is never empty here)
Contains(s, sub) ==
    \E i \in 1..(Len(s) - Len(sub) + 1) : SubSeq(s, i, i + Len(sub) - 1) = sub

\* s.startswith(prefix)
StartsWith(s, prefix) ==
    /\ Len(s) >= Len(prefix)
    /\ SubSeq(s, 1, Len(prefix)) = prefix

RECURSIVE SplitFrom(_, _, _, _)
\* the segments of s from position i on, cur being the segment read so far
SplitFrom(s, sep, i, cur) ==
    IF i > Len(s) THEN << cur >>
    ELSE IF SubSeq(s, i, i) = sep
         THEN << cur >> \o SplitFrom(s, sep, i + 1, "")
         ELSE SplitFrom(s, sep, i + 1, cur \o SubSeq(s, i, i))

\* s.split(sep) for a one-character separator
Split(s, sep) == SplitFrom(s, sep, 1, "")

(***************************************************************************)
(* SnowflakeConnection._is_bucket_private                                  *)
(***************************************************************************)
StrItem(v) == [kind |-> "str", str |-> v]
BoolItem(b) == [kind |-> "bool", bool |-> b]

\* the list literal private_indicators: two strings and two booleans, the
\* booleans being evaluated on the URL as given (not lowered)
private_indicators(url) ==
    << StrItem("s3://private-"),
       StrItem("s3://secure-"),
       BoolItem(Contains(url, "aws-region")),
       BoolItem(Contains(url, "amazonaws.com") /\ Contains(url, "s3://")) >>

public_indicators ==
    << StrItem("s3://public-"),
       StrItem("public-read"),
       StrItem("public-read-write") >>

RECURSIVE AnyIn(_, _, _)
\* any(indicator in hay for indicator in items): the generator is consumed
\* in order and stops at the first hit; `b in hay` for a bool b raises
\* TypeError.  The result is "True", "False" or "TypeError".
AnyIn(items, hay, i) ==
    IF i > Len(items) THEN "False"
    ELSE IF items[i].kind = "bool" THEN "TypeError"
    ELSE IF Contains(hay, items[i].str) THEN "True"
    ELSE AnyIn(items, hay, i + 1)

\* _is_bucket_private(storage_url): "True", "False", or the exception raised
IsBucketPrivate(url) ==
    LET has_private_indicators == AnyIn(private_indicators(url), Lower(url), 1)
        has_public_indicators  == AnyIn(public_indicators, Lower(url), 1)
    IN  IF has_private_indicators = "TypeError" THEN "TypeError"
        ELSE IF has_public_indicators = "TypeError" THEN "TypeError"
        ELSE IF has_private_indicators = "True" /\ has_public_indicators = "False"
             THEN "True"
             ELSE "False"

(***************************************************************************)
(* SecurityValidator: the per-volume analysis                              *)
(***************************************************************************)
\* _has_public_access_indicators(storage_url)
HasPublicAccessIndicators(url) ==
    \E ind \in {"public-read", "public-read-write", "public-bucket", "open-access"} :
        Contains(Lower(url), ind)

\* _is_valid_role_arn without the count of the segments
IsValidRoleArn_NoSegmentCount(arn) ==
    /\ StartsWith(arn, "arn:aws:iam::")
    /\ Contains(arn, ":role/")

\* _is_valid_role_arn(role_arn)
IsValidRoleArn(arn) ==
    /\ StartsWith(arn, "arn:aws:iam::")
    /\ Contains(arn, ":role/")
    /\ Len(Split(arn, ":")) = 6

\* _analyze_volume_security(volume_name, storage_url, role_arn); issues are
\* named by their text without the volume name
AnalyzeVolumeSecurity(url, arn) ==
    LET urlIssues ==
            IF url = "" THEN << "has no storage URL" >>
            ELSE IF HasPublicAccessIndicators(url) THEN << "may have public access" >>
            ELSE << >>
        arnIssues ==
            IF arn = "" THEN << "has no IAM role ARN" >>
            ELSE IF ~IsValidRoleArn(arn) THEN << "has invalid IAM role ARN" >>
            ELSE << >>
    IN  [ is_secure       |-> (urlIssues = << >> /\ arnIssues = << >>),
          issues          |-> urlIssues \o arnIssues,
          recommendations |-> IF Contains(Lower(url), "s3://") THEN 1 ELSE 0 ]

(***************************************************************************)
(* Inputs of the classifier development: storage URLs and role ARNs built  *)
(* from fragments, so that every indicator occurs alone, together with     *)
(* others, in upper case, and not at all.                                  *)
(***************************************************************************)
UrlSchemes  == {"s3://", "S3://", ""}
UrlPrefixes == {"private-", "secure-", "public-", "Private-", ""}
UrlNames    == {"data", "public-read", "public-read-write", "public-bucket",
                "open-access", "aws-region"}
UrlHosts    == {"", ".s3.amazonaws.com"}

Urls ==
    { sch \o pre \o name \o host :
        sch \in UrlSchemes, pre \in UrlPrefixes, name \in UrlNames, host \in UrlHosts }
    \cup { "", "s3://private-mantra-bucket/x", "s3://private-public-read-bucket",
           "s3://public-data/x", "s3://bucket.s3.us-west-2.amazonaws.com/x", "not a url" }

ArnHeads    == {"arn:aws:iam::", "arn:aws:iam:", ""}
ArnAccounts == {"123", ""}
ArnTails    == {":role/R", ":user/u", ":role/a:b"}

Arns ==
    { head \o acct \o tail :
        head \in ArnHeads, acct \in ArnAccounts, tail \in ArnTails }
    \cup { "", "arn:aws:iam::role/x", "arn:aws:iam::role/x:y" }

(***************************************************************************)
(* SecurityValidator.run_comprehensive_security_audit: score and status    *)
(***************************************************************************)
\* the keys of audit_results["checks"], in the order of the dict literal
CheckNames == << "storage_security", "network_security", "access_controls",
                 "encryption", "monitoring" >>

CheckSet == { CheckNames[i] : i \in 1..Len(CheckNames) }

Statuses == {"PASS", "WARNING", "FAIL", "ERROR", "UNKNOWN"}

\* passed_checks counted with != in place of ==
PassedChecks_NotPass(statuses) ==
    Cardinality({ n \in DOMAIN statuses : statuses[n] # "PASS" })

\* passed_checks: the checks whose status is "PASS"
PassedChecks(statuses) ==
    Cardinality({ n \in DOMAIN statuses : statuses[n] = "PASS" })

\* the score with WARNING counted as passed
SecurityScore_CountsWarnings(statuses) ==
    (Cardinality({ n \in DOMAIN statuses : statuses[n] \in {"PASS", "WARNING"} }) * 100)
        \div Cardinality(DOMAIN statuses)

\* int((passed_checks / total_checks) * 100): the quotient is truncated; the
\* doubles the code computes for five checks are 0.0, 20.0, ..., 100.0
SecurityScore(statuses) ==
    (PassedChecks(statuses) * 100) \div Cardinality(DOMAIN statuses)

\* the threshold chain with > in place of >=
OverallStatus_Strict(score) ==
    IF score > 90 THEN "EXCELLENT"
    ELSE IF score > 75 THEN "GOOD"
    ELSE IF score > 60 THEN "ACCEPTABLE"
    ELSE "CRITICAL"

\* the if/elif chain that sets overall_status
OverallStatus(score) ==
    IF score >= 90 THEN "EXCELLENT"
    ELSE IF score >= 75 THEN "GOOD"
    ELSE IF score >= 60 THEN "ACCEPTABLE"
    ELSE "CRITICAL"

\* the scoring development at rest: the values audit_results starts with
ScoringIdle ==
    /\ checks_in = [n \in CheckSet |-> "UNKNOWN"]
    /\ score_in = 0
    /\ score_out = 0
    /\ status_out = "UNKNOWN"
    /\ mapped = "UNKNOWN"
    /\ applied = {}

(***************************************************************************)
(* The connection manager after construction (__init__) and a process that *)
(* has run nothing yet                                                     *)
(***************************************************************************)
NoRet == [none |-> TRUE]
NoOp == [op |-> "none", raised |-> "none", opened |-> 0, ret |-> NoRet]

\* no standalone run is going on
MainIdle ==
    /\ pc = "idle"
    /\ env = {}
    /\ network = {}
    /\ audit_results = NoRet
    /\ report = << >>
    /\ report_file = << >>
    /\ success = "unset"
    /\ exit_code = -1
    /\ stdout = {}

\* no audit has run
NoAudit == [connected |-> FALSE, connect_raised |-> "none", raising |-> {},
            ran |-> {}, queries |-> 0, answers |-> NoRet]

\* no write operation has run
RecitationIdle == calls = << >>

ManagerInit ==
    /\ connection = 0
    /\ engine = 0
    /\ session_maker = 0
    /\ live = {}
    /\ disposed = {}
    /\ nextEngine = 1
    /\ cursors = 0
    /\ attempts = 0
    /\ last = NoOp

(***************************************************************************)
(* Classifier development: the three pure functions applied to one input   *)
(***************************************************************************)
InitClassifier ==
    /\ settings = [SNOWFLAKE_PASSWORD |-> "", SNOWFLAKE_PRIVATE_KEY_PATH |-> ""]
    /\ ManagerInit
    /\ RecitationIdle
    /\ storage_url \in Urls
    /\ role_arn \in Arns
    /\ private_result = "unset"
    /\ arn_result = "unset"
    /\ analysis = NoRet
    /\ ScoringIdle
    /\ audit_trace = NoAudit
    /\ MainIdle

\* the three functions tabulated over the inputs, each computed once
IsBucketPrivateOn == [u \in Urls |-> IsBucketPrivate(u)]
IsValidRoleArnOn == [a \in Arns |-> IsValidRoleArn(a)]
AnalyzeVolumeSecurityOn == [u \in Urls, a \in Arns |-> AnalyzeVolumeSecurity(u, a)]

CallIsBucketPrivate ==
    /\ private_result' = IsBucketPrivateOn[storage_url]
    /\ UNCHANGED << managerVars, scoringVars, auditVars, mainVars, storage_url, role_arn, arn_result, analysis, recitationVars >>

CallIsValidRoleArn ==
    /\ arn_result' = IF IsValidRoleArnOn[role_arn] THEN "True" ELSE "False"
    /\ UNCHANGED << managerVars, scoringVars, auditVars, mainVars, storage_url, role_arn, private_result, analysis, recitationVars >>

CallAnalyzeVolumeSecurity ==
    /\ analysis' = AnalyzeVolumeSecurityOn[storage_url, role_arn]
    /\ UNCHANGED << managerVars, scoringVars, auditVars, mainVars, storage_url, role_arn, private_result, arn_result, recitationVars >>

NextClassifier ==
    \/ CallIsBucketPrivate
    \/ CallIsValidRoleArn
    \/ CallAnalyzeVolumeSecurity

SpecClassifier == InitClassifier /\ [][NextClassifier]_vars

(***************************************************************************)
(* SnowflakeConnection: parameters, connect, close                         *)
(***************************************************************************)
MAX_CONNECTION_RETRIES == 3

\* get_connection_params with the two branches in the other order: the
\* password is used if there is one, otherwise the private key
GetConnectionParams_PasswordFirst(cfg, key_loads) ==
    IF cfg.SNOWFLAKE_PASSWORD # ""
    THEN [raised |-> "none", auth |-> "password"]
    ELSE IF cfg.SNOWFLAKE_PRIVATE_KEY_PATH # ""
         THEN IF key_loads
              THEN [raised |-> "none", auth |-> "private_key"]
              ELSE [raised |-> "KeyLoadError", auth |-> "none"]
         ELSE [raised |-> "ValueError", auth |-> "none"]

\* get_connection_params(): the private key is used if a path is configured,
\* otherwise the password; key_loads says whether the key file can be read
\* and parsed as an unencrypted PEM key
GetConnectionParams(cfg, key_loads) ==
    IF cfg.SNOWFLAKE_PRIVATE_KEY_PATH # ""
    THEN IF key_loads
         THEN [raised |-> "none", auth |-> "private_key"]
         ELSE [raised |-> "KeyLoadError", auth |-> "none"]
    ELSE IF cfg.SNOWFLAKE_PASSWORD # ""
         THEN [raised |-> "none", auth |-> "password"]
         ELSE [raised |-> "ValueError", auth |-> "none"]

\* what snowflake.connector.connect can do with one call
NetOutcomes == {"ok", "transient", "auth"}

NetError(net) == IF net = "transient" THEN "OperationalError" ELSE "DatabaseError"

\* the handle the connector hands out: the first one that is not open
NewHandle == CHOOSE h \in 1..MaxHandles :
                 /\ h \notin live
                 /\ \A g \in 1..(h - 1) : g \in live

\* connect(): one call of get_connection_params, then one call of
\* snowflake.connector.connect; any exception is logged and re-raised.
\* handle is the handle stored in self.connection (0: nothing stored).
DoConnect(key_loads, net) ==
    LET params == GetConnectionParams(settings, key_loads)
    IN  IF params.raised # "none"
        THEN [raised |-> params.raised, handle |-> 0, attempts |-> 0]
        ELSE IF net = "ok"
             THEN [raised |-> "none", handle |-> NewHandle, attempts |-> 1]
             ELSE [raised |-> NetError(net), handle |-> 0, attempts |-> 1]

\* the connector can hand out a handle only while the bound allows one more
CanConnect(key_loads, net) ==
    (GetConnectionParams(settings, key_loads).raised = "none" /\ net = "ok")
        => Cardinality(live) < MaxHandles

\* `if not self.connection: self.connect()`
EnsureConnection(key_loads, net) ==
    IF connection = 0
    THEN DoConnect(key_loads, net)
    ELSE [raised |-> "none", handle |-> 0, attempts |-> attempts]

CanEnsure(key_loads, net) == connection = 0 => CanConnect(key_loads, net)

\* the manager's fields as one record
Manager ==
    [connection |-> connection, engine |-> engine, session_maker |-> session_maker,
     live |-> live, disposed |-> disposed, cursors |-> cursors]

\* close() that disposes the engine but keeps the reference to it
CloseOf_KeepsEngine(m) ==
    [connection    |-> 0,
     engine        |-> m.engine,
     session_maker |-> m.session_maker,
     live          |-> IF m.connection # 0 THEN m.live \ {m.connection} ELSE m.live,
     disposed      |-> IF m.engine # 0 THEN m.disposed \cup {m.engine} ELSE m.disposed,
     cursors       |-> IF m.connection # 0 THEN 0 ELSE m.cursors]

\* close(): closes and forgets the stored connection, disposes and forgets
\* the engine; session_maker is not touched
CloseOf(m) ==
    [connection    |-> 0,
     engine        |-> 0,
     session_maker |-> m.session_maker,
     live          |-> IF m.connection # 0 THEN m.live \ {m.connection} ELSE m.live,
     disposed      |-> IF m.engine # 0 THEN m.disposed \cup {m.engine} ELSE m.disposed,
     cursors       |-> IF m.connection # 0 THEN 0 ELSE m.cursors]

(***************************************************************************)
(* Actions of the connection manager                                       *)
(***************************************************************************)
\* a direct call of get_connection_params()
CallGetConnectionParams ==
    \E key_loads \in BOOLEAN :
        LET params == GetConnectionParams(settings, key_loads)
        IN  /\ last' = [op |-> "get_connection_params", raised |-> params.raised,
                        opened |-> 0, ret |-> [auth |-> params.auth]]
            /\ UNCHANGED << settings, connection, engine, session_maker, live,
                            disposed, nextEngine, cursors, attempts, classifierVars, scoringVars, auditVars, mainVars, recitationVars >>

\* connect() that stores the handle before the login is answered and
\* leaves it in self.connection when the login fails
Connect_StoresOnFailure ==
    \E key_loads \in BOOLEAN, net \in NetOutcomes :
        LET co    == DoConnect(key_loads, net)
            early == co.attempts > 0 /\ Cardinality(live) < MaxHandles
        IN  /\ CanConnect(key_loads, net)
            /\ attempts' = co.attempts
            /\ IF co.raised = "none" \/ early
               THEN /\ connection' = NewHandle
                    /\ live' = live \cup {NewHandle}
                    /\ cursors' = 0
               ELSE UNCHANGED << connection, live, cursors >>
            /\ last' = [op |-> "connect", raised |-> co.raised,
                        opened |-> co.handle, ret |-> NoRet]
            /\ UNCHANGED << settings, engine, session_maker, disposed, nextEngine,
                            classifierVars, scoringVars, auditVars, mainVars, recitationVars >>

\* connect()
Connect ==
    \E key_loads \in BOOLEAN, net \in NetOutcomes :
        LET co == DoConnect(key_loads, net)
        IN  /\ CanConnect(key_loads, net)
            /\ attempts' = co.attempts
            /\ IF co.raised = "none"
               THEN /\ connection' = co.handle
                    /\ live' = live \cup {co.handle}
                    /\ cursors' = 0
               ELSE UNCHANGED << connection, live, cursors >>
            /\ last' = [op |-> "connect", raised |-> co.raised,
                        opened |-> co.handle, ret |-> NoRet]
            /\ UNCHANGED << settings, engine, session_maker, disposed, nextEngine,
                            classifierVars, scoringVars, auditVars, mainVars, recitationVars >>

\* close()
Close ==
    LET m == CloseOf(Manager)
    IN  /\ connection' = m.connection
        /\ engine' = m.engine
        /\ session_maker' = m.session_maker
        /\ live' = m.live
        /\ disposed' = m.disposed
        /\ cursors' = m.cursors
        /\ last' = [op |-> "close", raised |-> "none", opened |-> 0, ret |-> NoRet]
        /\ UNCHANGED << settings, nextEngine, attempts, classifierVars, scoringVars, auditVars, mainVars, recitationVars >>

\* get_sqlalchemy_engine(): builds the engine and the session factory once;
\* the connection string needs params['password']
GetSqlalchemyEngine ==
    \E key_loads \in BOOLEAN :
        LET params == GetConnectionParams(settings, key_loads)
            raised == IF engine # 0 THEN "none"
                      ELSE IF params.raised # "none" THEN params.raised
                      ELSE IF params.auth # "password" THEN "KeyError"
                      ELSE "none"
        IN  /\ (engine = 0 /\ raised = "none") => nextEngine <= MaxEngines
            /\ IF engine = 0 /\ raised = "none"
               THEN /\ engine' = nextEngine
                    /\ session_maker' = nextEngine
                    /\ nextEngine' = nextEngine + 1
               ELSE UNCHANGED << engine, session_maker, nextEngine >>
            /\ last' = [op |-> "get_sqlalchemy_engine", raised |-> raised, opened |-> 0,
                        ret |-> IF raised = "none" THEN [engine |-> engine'] ELSE NoRet]
            /\ UNCHANGED << settings, connection, live, disposed, cursors, attempts,
                            classifierVars, scoringVars, auditVars, mainVars, recitationVars >>

\* get_session(): a session of the session factory, which get_sqlalchemy_engine
\* builds if there is none
GetSession ==
    \E key_loads \in BOOLEAN :
        LET params == GetConnectionParams(settings, key_loads)
            builds == session_maker = 0 /\ engine = 0
            raised == IF session_maker # 0 THEN "none"
                      ELSE IF engine # 0 THEN "TypeError"
                      ELSE IF params.raised # "none" THEN params.raised
                      ELSE IF params.auth # "password" THEN "KeyError"
                      ELSE "none"
        IN  /\ (builds /\ raised = "none") => nextEngine <= MaxEngines
            /\ IF builds /\ raised = "none"
               THEN /\ engine' = nextEngine
                    /\ session_maker' = nextEngine
                    /\ nextEngine' = nextEngine + 1
               ELSE UNCHANGED << engine, session_maker, nextEngine >>
            /\ last' = [op |-> "get_session", raised |-> raised, opened |-> 0,
                        ret |-> IF raised = "none" THEN [bound_to |-> session_maker']
                                ELSE NoRet]
            /\ UNCHANGED << settings, connection, live, disposed, cursors, attempts,
                            classifierVars, scoringVars, auditVars, mainVars, recitationVars >>

(***************************************************************************)
(* What the warehouse answers: external volumes, stages, network policies  *)
(***************************************************************************)
\* the rows the query on information_schema.external_volumes can return
VolumeRows ==
    { [url |-> "s3://private-a", arn |-> "arn:aws:iam::1:role/R"],
      [url |-> "s3://public-a",  arn |-> "arn:aws:iam::1:role/R"],
      [url |-> "s3://private-public-read", arn |-> "arn:aws:iam::1:role/R"],
      [url |-> "",               arn |-> "arn:aws:iam::1"] }

\* the stage URLs the query on information_schema.stages can return
StageUrls == {"s3://secure-s", "s3://public-s"}

\* _is_bucket_private and _analyze_volume_security on the rows the warehouse
\* can return, each computed once
RowPrivate  == [u \in { r.url : r \in VolumeRows } \cup StageUrls |-> IsBucketPrivate(u)]
RowAnalysis == [r \in VolumeRows |-> AnalyzeVolumeSecurity(r.url, r.arn)]

\* sequences of at most n elements of S
SeqUpTo(S, n) == UNION { [1..k -> S] : k \in 0..n }

VolumeLists   == SeqUpTo(VolumeRows, MaxVolumes)
StageUrlLists == SeqUpTo(StageUrls, 1)

\* the inputs of `if not self.connection: self.connect()`: whether the key
\* file loads and what the network does; they matter only without a connection
ConnectInputs ==
    IF connection = 0 THEN BOOLEAN \X NetOutcomes ELSE { << TRUE, "ok" >> }

(***************************************************************************)
(* SnowflakeConnection.validate_bucket_security                            *)
(***************************************************************************)
RECURSIVE VolumesLoop(_, _, _)
\* the loop over the external volumes: the flag external_volumes_private
\* after the loop, and the exception that ended it
VolumesLoop(volumes, i, flag) ==
    IF i > Len(volumes) THEN [raised |-> "none", flag |-> flag]
    ELSE IF volumes[i].url = "" THEN VolumesLoop(volumes, i + 1, TRUE)
    ELSE LET private == RowPrivate[volumes[i].url]
         IN  IF private = "TypeError" THEN [raised |-> "TypeError", flag |-> flag]
             ELSE IF private = "False" THEN VolumesLoop(volumes, i + 1, flag)
             ELSE VolumesLoop(volumes, i + 1, TRUE)

RECURSIVE StagesLoop(_, _, _)
\* the loop over the stages: the flag stage_access_restricted
StagesLoop(urls, i, flag) ==
    IF i > Len(urls) THEN [raised |-> "none", flag |-> flag]
    ELSE IF urls[i] = "" THEN StagesLoop(urls, i + 1, flag)
    ELSE LET private == RowPrivate[urls[i]]
         IN  IF private = "TypeError" THEN [raised |-> "TypeError", flag |-> flag]
             ELSE IF private = "True" THEN StagesLoop(urls, i + 1, TRUE)
             ELSE StagesLoop(urls, i + 1, flag)

\* the keys of security_checks that are True when the try block is left;
\* failing is the query that raises (0: none)
SecurityChecks(volumes, stages, policies, failing) ==
    IF failing = 1 THEN {}
    ELSE
      LET v  == VolumesLoop(volumes, 1, FALSE)
          c1 == IF v.flag THEN {"external_volumes_private"} ELSE {}
      IN  IF v.raised # "none" \/ failing = 2 THEN c1
          ELSE
            LET st == StagesLoop(stages, 1, FALSE)
                c2 == c1 \cup (IF st.flag THEN {"stage_access_restricted"} ELSE {})
            IN  IF st.raised # "none" \/ failing = 3 THEN c2
                ELSE c2 \cup (IF policies > 0 THEN {"network_policies_applied"} ELSE {})
                        \cup {"bucket_policies_secure"}

\* whether the loop over these rows ends with an exception, after which no
\* later query runs
VolumesRaise(volumes) == VolumesLoop(volumes, 1, FALSE).raised # "none"
StagesRaise(stages)   == StagesLoop(stages, 1, FALSE).raised # "none"

\* the rows after which the next query runs, so that it can be the one
\* that raises
QuietVolumeLists   == { v \in VolumeLists : ~VolumesRaise(v) }
QuietStageUrlLists == { u \in StageUrlLists : ~StagesRaise(u) }

\* validate_bucket_security(): connects if there is no connection; the
\* cursor it opens is closed in the finally block.  Rows of a query that
\* does not run are not drawn.  The outcome carries the keys that are
\* True and the URLs of the rows the query on external volumes returned.
ValidateBucketSecurity ==
    \E ci \in ConnectInputs :
        LET co == EnsureConnection(ci[1], ci[2])
        IN  /\ CanEnsure(ci[1], ci[2])
            /\ attempts' = co.attempts
            /\ IF co.handle # 0
               THEN /\ connection' = co.handle
                    /\ live' = live \cup {co.handle}
                    /\ cursors' = 0
               ELSE UNCHANGED << connection, live, cursors >>
            /\ IF co.raised # "none"
               THEN last' = [op |-> "validate_bucket_security", raised |-> co.raised,
                             opened |-> co.handle, ret |-> NoRet]
               ELSE \E failing \in 0..3 :
                    \E volumes \in (IF failing = 1 THEN { << >> }
                                    ELSE IF failing = 0 THEN VolumeLists
                                    ELSE QuietVolumeLists) :
                    \E stages \in (IF failing \in {1, 2} \/ VolumesRaise(volumes)
                                   THEN { << >> }
                                   ELSE IF failing = 0 THEN StageUrlLists
                                   ELSE QuietStageUrlLists) :
                    \E policies \in (IF failing = 0 /\ ~VolumesRaise(volumes)
                                        /\ ~StagesRaise(stages)
                                     THEN 0..1 ELSE {0}) :
                        last' = [op |-> "validate_bucket_security", raised |-> "none",
                                 opened |-> co.handle,
                                 ret |-> [checks |-> SecurityChecks(volumes, stages,
                                                                    policies, failing),
                                          urls |-> { volumes[i].url : i \in 1..Len(volumes) }]]
            /\ UNCHANGED << settings, engine, session_maker, disposed, nextEngine,
                            classifierVars, scoringVars, auditVars, mainVars, recitationVars >>

\* setup_secure_external_volume that closes the connection it opened
\* before it returns
SetupSecureExternalVolume_Closes ==
    \E ci \in ConnectInputs :
        LET co == EnsureConnection(ci[1], ci[2])
            before == IF co.handle # 0 THEN 0 ELSE cursors
        IN  /\ CanEnsure(ci[1], ci[2])
            /\ co.raised = "none" => before < MaxCursors
            /\ attempts' = co.attempts
            /\ UNCHANGED << connection, live >>
            /\ cursors' = IF co.raised # "none" \/ co.handle # 0 THEN cursors
                          ELSE before + 1
            /\ last' = [op |-> "setup_secure_external_volume", raised |-> co.raised,
                        opened |-> co.handle,
                        ret |-> IF co.raised = "none" THEN [sql |-> "create_volume_sql"]
                                ELSE NoRet]
            /\ UNCHANGED << settings, engine, session_maker, disposed, nextEngine,
                            classifierVars, scoringVars, auditVars, mainVars, recitationVars >>

\* setup_secure_external_volume(): connects if there is no connection,
\* opens a cursor it never closes, returns the SQL template
SetupSecureExternalVolume ==
    \E ci \in ConnectInputs :
        LET co == EnsureConnection(ci[1], ci[2])
            before == IF co.handle # 0 THEN 0 ELSE cursors
        IN  /\ CanEnsure(ci[1], ci[2])
            /\ co.raised = "none" => before < MaxCursors
            /\ attempts' = co.attempts
            /\ IF co.handle # 0
               THEN /\ connection' = co.handle
                    /\ live' = live \cup {co.handle}
               ELSE UNCHANGED << connection, live >>
            /\ cursors' = IF co.raised = "none" THEN before + 1 ELSE cursors
            /\ last' = [op |-> "setup_secure_external_volume", raised |-> co.raised,
                        opened |-> co.handle,
                        ret |-> IF co.raised = "none" THEN [sql |-> "create_volume_sql"]
                                ELSE NoRet]
            /\ UNCHANGED << settings, engine, session_maker, disposed, nextEngine,
                            classifierVars, scoringVars, auditVars, mainVars, recitationVars >>

(***************************************************************************)
(* SecurityValidator._validate_storage_security                            *)
(***************************************************************************)
RECURSIVE SecureVolumes(_, _)
\* the number of volumes among the first n whose analysis says is_secure
SecureVolumes(volumes, n) ==
    IF n = 0 THEN 0
    ELSE SecureVolumes(volumes, n - 1)
         + (IF RowAnalysis[volumes[n]].is_secure THEN 1 ELSE 0)

RECURSIVE VolumeIssues(_, _)
\* the issues of the volumes that are not secure, in order
VolumeIssues(volumes, i) ==
    IF i > Len(volumes) THEN << >>
    ELSE LET a == RowAnalysis[volumes[i]]
         IN  (IF a.is_secure THEN << >> ELSE a.issues) \o VolumeIssues(volumes, i + 1)

\* the storage check with the zero-volume case taken as a hard failure
StorageResult_EmptyFails(volumes) ==
    LET secure_volumes == SecureVolumes(volumes, Len(volumes))
    IN  [status  |-> IF Len(volumes) > 0 /\ secure_volumes = Len(volumes) THEN "PASS"
                     ELSE IF secure_volumes > 0 THEN "WARNING"
                     ELSE "FAIL",
         secure  |-> secure_volumes,
         volumes |-> Len(volumes),
         rows    |-> volumes,
         issues  |-> IF Len(volumes) = 0 THEN << "No external volumes found" >>
                     ELSE VolumeIssues(volumes, 1)]

\* the result of the storage check when the query returned volumes; rows
\* are the rows the query returned
StorageResult(volumes) ==
    IF Len(volumes) = 0
    THEN [status |-> "WARNING", secure |-> 0, volumes |-> 0, rows |-> volumes,
          issues |-> << "No external volumes found" >>]
    ELSE LET secure_volumes == SecureVolumes(volumes, Len(volumes))
         IN  [status  |-> IF secure_volumes = Len(volumes) THEN "PASS"
                          ELSE IF secure_volumes > 0 THEN "WARNING"
                          ELSE "FAIL",
              secure  |-> secure_volumes,
              volumes |-> Len(volumes),
              rows    |-> volumes,
              issues  |-> VolumeIssues(volumes, 1)]

StorageError(cause) ==
    [status |-> "ERROR", secure |-> 0, volumes |-> 0,
     issues |-> << "Failed to validate storage" >>, cause |-> cause]

\* _validate_storage_security(): connects if there is no connection; every
\* exception, the connect's included, becomes status ERROR; the cursor is
\* closed only when no exception occurred
ValidateStorageSecurity ==
    \E key_loads \in BOOLEAN :
    \E net \in (IF connection = 0 THEN NetOutcomes ELSE {"ok"}) :
        LET co     == EnsureConnection(key_loads, net)
            params == GetConnectionParams(settings, key_loads)
            before == IF co.handle # 0 THEN 0 ELSE cursors
        IN  /\ CanEnsure(key_loads, net)
            /\ attempts' = co.attempts
            /\ IF co.handle # 0
               THEN /\ connection' = co.handle
                    /\ live' = live \cup {co.handle}
               ELSE UNCHANGED << connection, live >>
            /\ IF co.raised # "none"
               THEN \* self.db.connect() raised
                    /\ cursors' = cursors
                    /\ last' = [op |-> "_validate_storage_security", raised |-> "none",
                                opened |-> co.handle, ret |-> StorageError(co.raised)]
               ELSE IF params.raised # "none"
               THEN \* get_connection_params() raised with the cursor open
                    /\ before < MaxCursors
                    /\ cursors' = before + 1
                    /\ last' = [op |-> "_validate_storage_security", raised |-> "none",
                                opened |-> co.handle, ret |-> StorageError(params.raised)]
               ELSE \/ \* cursor.execute() raised with the cursor open
                       /\ before < MaxCursors
                       /\ cursors' = before + 1
                       /\ last' = [op |-> "_validate_storage_security",
                                   raised |-> "none", opened |-> co.handle,
                                   ret |-> StorageError("ProgrammingError")]
                    \/ \E volumes \in VolumeLists :
                       /\ cursors' = before
                       /\ last' = [op |-> "_validate_storage_security",
                                   raised |-> "none", opened |-> co.handle,
                                   ret |-> StorageResult(volumes)]
            /\ UNCHANGED << settings, engine, session_maker, disposed, nextEngine,
                            classifierVars, scoringVars, auditVars, mainVars, recitationVars >>

(***************************************************************************)
(* RecitationService.get_recitations                                       *)
(***************************************************************************)
\* get_recitations(): _ensure_connection(), then a query on a cursor that
\* the finally block closes; an exception of the query is re-raised
GetRecitations ==
    \E ci \in ConnectInputs, query_fails \in BOOLEAN :
        LET co == EnsureConnection(ci[1], ci[2])
            raised == IF co.raised # "none" THEN co.raised
                      ELSE IF query_fails THEN "ProgrammingError"
                      ELSE "none"
        IN  /\ CanEnsure(ci[1], ci[2])
            /\ attempts' = co.attempts
            /\ IF co.handle # 0
               THEN /\ connection' = co.handle
                    /\ live' = live \cup {co.handle}
                    /\ cursors' = 0
               ELSE UNCHANGED << connection, live, cursors >>
            /\ last' = [op |-> "get_recitations", raised |-> raised,
                        opened |-> co.handle, ret |-> NoRet]
            /\ UNCHANGED << settings, engine, session_maker, disposed, nextEngine,
                            classifierVars, scoringVars, auditVars, mainVars, recitationVars >>

(***************************************************************************)
(* The manager's specification                                             *)
(***************************************************************************)
Credentials == {"", "secret"}
KeyPaths    == {"", "rsa_key.p8"}

Init ==
    /\ settings \in [SNOWFLAKE_PASSWORD : Credentials,
                     SNOWFLAKE_PRIVATE_KEY_PATH : KeyPaths]
    /\ ManagerInit
    /\ RecitationIdle
    /\ storage_url = ""
    /\ role_arn = ""
    /\ private_result = "unset"
    /\ arn_result = "unset"
    /\ analysis = NoRet
    /\ ScoringIdle
    /\ audit_trace = NoAudit
    /\ MainIdle

Next ==
    \/ CallGetConnectionParams
    \/ Connect
    \/ Close
    \/ GetSqlalchemyEngine
    \/ GetSession
    \/ ValidateBucketSecurity
    \/ SetupSecureExternalVolume
    \/ ValidateStorageSecurity
    \/ GetRecitations

Spec == Init /\ [][Next]_vars

(***************************************************************************)
(* Properties of the connection manager (checked under Spec)               *)
(***************************************************************************)
HasPassword == settings.SNOWFLAKE_PASSWORD # ""
HasKeyPath  == settings.SNOWFLAKE_PRIVATE_KEY_PATH # ""

C2_RetriesTransientFailures ==
    last.op = "connect" =>
        /\ attempts <= MAX_CONNECTION_RETRIES
        /\ last.raised = "OperationalError" => attempts = MAX_CONNECTION_RETRIES
        /\ last.raised \in {"DatabaseError", "ValueError", "KeyLoadError"} => attempts <= 1

\* C3: close() can be called in every state, raises nothing, leaves
\* connection = None and engine = None, and a second close() right after it
\* changes nothing.
C3_CloseIdempotentTotal ==
    /\ ENABLED Close
    /\ last.op = "close" =>
          /\ last.raised = "none"
          /\ connection = 0
          /\ engine = 0
          /\ CloseOf(Manager) = Manager

\* a close() that ran after a connect() reached the connector and after an
\* engine had been built
C3_Witness ==
    /\ last.op = "close"
    /\ attempts = 1
    /\ disposed # {}

ImplicitConnectOps ==
    {"validate_bucket_security", "setup_secure_external_volume",
     "_validate_storage_security", "get_recitations",
     "create_recitation", "update_recitation", "delete_recitation"}

C5_AtMostOneLive ==
    /\ Cardinality(live) <= 1
    /\ live # {} => live = {connection}

(***************************************************************************)
(* Properties of the classifier and of the volume analysis (checked under  *)
(* SpecClassifier)                                                         *)
(***************************************************************************)
\* the indicators as the classifier's contract names them
PublicIndicator(url) ==
    \/ StartsWith(Lower(url), "s3://public-")
    \/ Contains(Lower(url), "public-read")
    \/ Contains(Lower(url), "public-read-write")

PrivateIndicator(url) ==
    \/ StartsWith(Lower(url), "s3://private-")
    \/ StartsWith(Lower(url), "s3://secure-")
    \/ /\ Contains(Lower(url), "aws-region") \/ Contains(Lower(url), "amazonaws.com")
       /\ Contains(Lower(url), "s3://")

PublicIndicatorOn  == [u \in Urls |-> PublicIndicator(u)]
PrivateIndicatorOn == [u \in Urls |-> PrivateIndicator(u)]

\* C6: for a URL with a public indicator _is_bucket_private returns False,
\* whether or not a private indicator is present too.
C6_PublicOverrides ==
    (private_result # "unset" /\ PublicIndicatorOn[storage_url]) =>
        private_result = "False"

\* C7: _is_bucket_private never raises, and for a URL without a private
\* indicator (the empty string included) it returns False.
C7_NoPrivateIsFalse ==
    private_result # "unset" =>
        /\ private_result # "TypeError"
        /\ ~PrivateIndicatorOn[storage_url] => private_result = "False"

\* C8: for a URL with a private indicator and no public indicator
\* _is_bucket_private returns True.
C8_PrivateIsTrue ==
    (/\ private_result # "unset"
     /\ PrivateIndicatorOn[storage_url]
     /\ ~PublicIndicatorOn[storage_url]) =>
        private_result = "True"

\* C9: a volume is secure if and only if its URL is non-empty, the
\* classifier says the URL is private, and its role ARN is valid.
C9_AuditorAgreesWithClassifier ==
    analysis # NoRet =>
        (analysis.is_secure <=>
            /\ storage_url # ""
            /\ IsBucketPrivateOn[storage_url] = "True"
            /\ IsValidRoleArnOn[role_arn])

\* the number of ':' in s
ColonCount(s) == Cardinality({ i \in 1..Len(s) : SubSeq(s, i, i) = ":" })

\* the shape arn:aws:iam::<account>:role/<name>: the prefix, ':role/', and
\* six segments, that is five colons
HasRoleArnShape(arn) ==
    /\ StartsWith(arn, "arn:aws:iam::")
    /\ Contains(arn, ":role/")
    /\ ColonCount(arn) = 5

HasRoleArnShapeOn == [a \in Arns |-> HasRoleArnShape(a)]

\* C10: _is_valid_role_arn accepts a role ARN exactly when it starts with
\* 'arn:aws:iam::', contains ':role/' and has six segments; a volume whose
\* role ARN is anything else is not secure.
C10_RoleArnShape ==
    /\ arn_result # "unset" =>
          (arn_result = "True" <=> HasRoleArnShapeOn[role_arn])
    /\ (analysis # NoRet /\ ~HasRoleArnShapeOn[role_arn]) => ~analysis.is_secure

\* an ARN with the prefix and ':role/' that is rejected for its segment
\* count alone, on a volume whose URL raises no issue
C10_Witness ==
    /\ arn_result = "False"
    /\ StartsWith(role_arn, "arn:aws:iam::")
    /\ Contains(role_arn, ":role/")
    /\ analysis # NoRet
    /\ analysis.issues = << "has invalid IAM role ARN" >>
    /\ ~analysis.is_secure

(***************************************************************************)
(* Properties of the storage check (checked under Spec)                    *)
(***************************************************************************)
\* the number of rows whose analysis says is_secure
SecureRowCount(rows) ==
    Cardinality({ i \in 1..Len(rows) : RowAnalysis[rows[i]].is_secure })

\* C11: when its query succeeds the storage check is WARNING for zero
\* volumes, PASS when there is a volume and all are secure, WARNING when
\* some but not all are secure, FAIL when there is a volume and none is
\* secure.
C11_StorageStatus ==
    (last.op = "_validate_storage_security" /\ last.ret.status # "ERROR") =>
        LET rows == last.ret.rows
            n    == Len(rows)
            k    == SecureRowCount(rows)
        IN  /\ n = 0 => last.ret.status = "WARNING"
            /\ (n > 0 /\ k = n) => last.ret.status = "PASS"
            /\ (k > 0 /\ k < n) => last.ret.status = "WARNING"
            /\ (n > 0 /\ k = 0) => last.ret.status = "FAIL"

\* the query returned no volume and the check says WARNING
C11_Witness ==
    /\ last.op = "_validate_storage_security"
    /\ last.ret.status = "WARNING"
    /\ last.ret.rows = << >>

(***************************************************************************)
(* Scoring development: the score and the status for every combination of  *)
(* check statuses, and the threshold chain for every score                 *)
(***************************************************************************)
ClassifierIdle ==
    /\ storage_url = ""
    /\ role_arn = ""
    /\ private_result = "unset"
    /\ arn_result = "unset"
    /\ analysis = NoRet

InitScoring ==
    /\ settings = [SNOWFLAKE_PASSWORD |-> "", SNOWFLAKE_PRIVATE_KEY_PATH |-> ""]
    /\ ManagerInit
    /\ RecitationIdle
    /\ ClassifierIdle
    /\ \/ checks_in \in [CheckSet -> Statuses] /\ score_in = 0
       \/ checks_in = [n \in CheckSet |-> "UNKNOWN"] /\ score_in \in 0..100
    /\ score_out = 0
    /\ status_out = "UNKNOWN"
    /\ mapped = "UNKNOWN"
    /\ applied = {}
    /\ audit_trace = NoAudit
    /\ MainIdle

\* lines 39-54 of run_comprehensive_security_audit on the statuses checks_in
Aggregate ==
    /\ score_out' = SecurityScore(checks_in)
    /\ status_out' = OverallStatus(score_out')
    /\ applied' = applied \cup {"aggregate"}
    /\ UNCHANGED << managerVars, classifierVars, auditVars, mainVars, checks_in, score_in, mapped, recitationVars >>

\* lines 46-54 of run_comprehensive_security_audit on the score score_in
MapStatus ==
    /\ mapped' = OverallStatus(score_in)
    /\ applied' = applied \cup {"map"}
    /\ UNCHANGED << managerVars, classifierVars, auditVars, mainVars, checks_in, score_in,
                    score_out, status_out, recitationVars >>

NextScoring ==
    \/ Aggregate
    \/ MapStatus

SpecScoring == InitScoring /\ [][NextScoring]_vars

(***************************************************************************)
(* Properties of the score and of the overall status (checked under        *)
(* SpecScoring)                                                            *)
(***************************************************************************)
\* a / b rounded to the nearest integer, for a >= 0 and b > 0
RoundDiv(a, b) == (2 * a + b) \div (2 * b)

\* the checks of checks_in whose status is exactly PASS
PassCount == Cardinality({ n \in CheckSet : checks_in[n] = "PASS" })

\* C15: security_score = round(100 * passCount / 5), passCount counting
\* the checks whose status is exactly PASS; the score is an integer in
\* 0..100.
C15_ScoreFormula ==
    "aggregate" \in applied =>
        /\ score_out = RoundDiv(100 * PassCount, 5)
        /\ score_out \in 0..100

\* four PASS and one WARNING give 80
C15_Witness ==
    /\ "aggregate" \in applied
    /\ PassCount = 4
    /\ \E n \in CheckSet : checks_in[n] = "WARNING"
    /\ score_out = 80

Tiers == {"EXCELLENT", "GOOD", "ACCEPTABLE", "CRITICAL"}

\* the tier the thresholds 90, 75 and 60 give a score
TierOf(score) ==
    CHOOSE t \in Tiers :
        /\ t = "EXCELLENT" <=> score >= 90
        /\ t = "GOOD" <=> (score >= 75 /\ score <= 89)
        /\ t = "ACCEPTABLE" <=> (score >= 60 /\ score <= 74)
        /\ t = "CRITICAL" <=> score < 60

\* C16: every score in 0..100 maps to exactly one of EXCELLENT (>= 90),
\* GOOD (75..89), ACCEPTABLE (60..74), CRITICAL (< 60), the values 90, 75
\* and 60 going to the higher tier; the status computed for a report is
\* never the initial UNKNOWN.
C16_StatusPartition ==
    /\ "map" \in applied =>
          /\ mapped \in Tiers
          /\ mapped = "EXCELLENT" <=> score_in >= 90
          /\ mapped = "GOOD" <=> (score_in >= 75 /\ score_in <= 89)
          /\ mapped = "ACCEPTABLE" <=> (score_in >= 60 /\ score_in <= 74)
          /\ mapped = "CRITICAL" <=> score_in < 60
    /\ "aggregate" \in applied =>
          /\ status_out # "UNKNOWN"
          /\ status_out = TierOf(score_out)

\* the boundary 75 mapped to GOOD
C16_Witness ==
    /\ "map" \in applied
    /\ score_in = 75
    /\ mapped = "GOOD"

TierRank(t) ==
    CASE t = "CRITICAL" -> 0
      [] t = "ACCEPTABLE" -> 1
      [] t = "GOOD" -> 2
      [] t = "EXCELLENT" -> 3

\* C17: turning one check that is not PASS into PASS, the others fixed,
\* never lowers the score nor the tier of the overall status.
C17_ScoreMonotonic ==
    "aggregate" \in applied =>
        \A n \in CheckSet :
            checks_in[n] # "PASS" =>
                LET more == [checks_in EXCEPT ![n] = "PASS"]
                IN  /\ SecurityScore(more) >= score_out
                    /\ TierRank(OverallStatus(SecurityScore(more))) >= TierRank(status_out)

\* three PASS give 60 and ACCEPTABLE; one more PASS gives a higher tier
C17_Witness ==
    /\ "aggregate" \in applied
    /\ score_out = 60
    /\ status_out = "ACCEPTABLE"
    /\ \E n \in CheckSet :
          /\ checks_in[n] # "PASS"
          /\ OverallStatus(SecurityScore([checks_in EXCEPT ![n] = "PASS"])) = "GOOD"

(***************************************************************************)
(* SecurityValidator: the five checks and the audit                        *)
(***************************************************************************)
\* the rows the audit's query on external volumes can return: a volume
\* the audit finds secure and one it does not
SecureRow   == [url |-> "s3://private-a", arn |-> "arn:aws:iam::1:role/R"]
InsecureRow == [url |-> "", arn |-> "arn:aws:iam::1"]

AuditVolumeLists ==
    { << >>, << SecureRow >>, << InsecureRow >>, << SecureRow, InsecureRow >> }

\* how the storage check's query can go: execute() raises with the cursor
\* open, or fetchall() returns rows
StorageInputs ==
    { [raises |-> "execute", rows |-> << >>] }
        \cup { [raises |-> "none", rows |-> v] : v \in AuditVolumeLists }

\* how SHOW NETWORK POLICIES can go: execute() raises with the cursor open,
\* or fetchall() returns `policies` rows
NetworkInputs ==
    { [raises |-> "execute", policies |-> 0],
      [raises |-> "none", policies |-> 0], [raises |-> "none", policies |-> 1] }

\* how SELECT CURRENT_ROLE(), CURRENT_USER() can go
AccessInputs ==
    { [raises |-> "execute", role |-> ""],
      [raises |-> "none", role |-> "ACCOUNTADMIN"],
      [raises |-> "none", role |-> "SECURITYADMIN"],
      [raises |-> "none", role |-> "APP_ROLE"] }

\* how the count of the last hour's query history can go
MonitoringInputs ==
    { [raises |-> "execute", recent_queries |-> 0],
      [raises |-> "none", recent_queries |-> 0],
      [raises |-> "none", recent_queries |-> 1] }

\* the outcome of a check: the dict it returns, whether its except block
\* ran, the cursors it left open and the queries it sent
CheckOutcome(result, raised, leak, queries) ==
    [result |-> result, raised |-> raised, leak |-> leak, queries |-> queries]

\* _validate_storage_security() as a function of what its calls do:
\* co_raised is what the connect of a manager without connection raised,
\* params_raised what get_connection_params() raised with the cursor open
StorageCheck(co_raised, params_raised, x) ==
    IF co_raised # "none"
    THEN CheckOutcome(StorageError(co_raised), TRUE, 0, 0)
    ELSE IF params_raised # "none"
    THEN CheckOutcome(StorageError(params_raised), TRUE, 1, 0)
    ELSE IF x.raises = "execute"
    THEN CheckOutcome(StorageError("ProgrammingError"), TRUE, 1, 1)
    ELSE CheckOutcome(StorageResult(x.rows), FALSE, 0, 1)

\* _validate_network_security(): has_conn says whether self.db.connection is
\* set; None has no cursor(), which raises inside the try like any failure
NetworkCheck(has_conn, x) ==
    LET error == [status |-> "ERROR",
                  issues |-> << "Failed to validate network security" >>]
    IN  IF ~has_conn
        THEN CheckOutcome(error, TRUE, 0, 0)
        ELSE IF x.raises = "execute"
        THEN CheckOutcome(error, TRUE, 1, 1)
        ELSE IF x.policies = 0
        THEN CheckOutcome([status |-> "WARNING",
                           issues |-> << "No network policies found" >>], FALSE, 0, 1)
        ELSE CheckOutcome([status |-> "PASS", issues |-> << >>], FALSE, 0, 1)

\* the access check that knows ACCOUNTADMIN only
AccessCheck_OnlyAccountAdmin(has_conn, x) ==
    LET error == [status |-> "ERROR",
                  issues |-> << "Failed to validate access controls" >>]
    IN  IF ~has_conn
        THEN CheckOutcome(error, TRUE, 0, 0)
        ELSE IF x.raises = "execute"
        THEN CheckOutcome(error, TRUE, 1, 1)
        ELSE IF x.role = "ACCOUNTADMIN"
        THEN CheckOutcome([status |-> "WARNING",
                           issues |-> << "Using high-privilege role" >>], FALSE, 0, 1)
        ELSE CheckOutcome([status |-> "PASS", issues |-> << >>], FALSE, 0, 1)

\* _validate_access_controls(): PASS unless the role is a high-privilege one
AccessCheck(has_conn, x) ==
    LET error == [status |-> "ERROR",
                  issues |-> << "Failed to validate access controls" >>]
    IN  IF ~has_conn
        THEN CheckOutcome(error, TRUE, 0, 0)
        ELSE IF x.raises = "execute"
        THEN CheckOutcome(error, TRUE, 1, 1)
        ELSE IF x.role \in {"ACCOUNTADMIN", "SECURITYADMIN"}
        THEN CheckOutcome([status |-> "WARNING",
                           issues |-> << "Using high-privilege role" >>], FALSE, 0, 1)
        ELSE CheckOutcome([status |-> "PASS", issues |-> << >>], FALSE, 0, 1)

\* the encryption check left at the status a result dict starts with
EncryptionCheck_Unknown ==
    CheckOutcome([status |-> "UNKNOWN", issues |-> << >>], FALSE, 0, 0)

\* _validate_encryption(): no query, always PASS
EncryptionCheck ==
    CheckOutcome([status |-> "PASS", issues |-> << >>], FALSE, 0, 0)

\* _validate_monitoring_setup(): the except block sets WARNING
MonitoringCheck(has_conn, x) ==
    LET error == [status |-> "WARNING",
                  issues |-> << "Could not validate monitoring" >>]
    IN  IF ~has_conn
        THEN CheckOutcome(error, TRUE, 0, 0)
        ELSE IF x.raises = "execute"
        THEN CheckOutcome(error, TRUE, 1, 1)
        ELSE IF x.recent_queries = 0
        THEN CheckOutcome([status |-> "WARNING",
                           issues |-> << "No recent query history found" >>],
                          FALSE, 0, 1)
        ELSE CheckOutcome([status |-> "PASS", issues |-> << >>], FALSE, 0, 1)

RECURSIVE SumOver(_, _)
\* the sum of f over the set S
SumOver(f, S) ==
    IF S = {} THEN 0
    ELSE LET c == CHOOSE d \in S : TRUE
         IN  f[c] + SumOver(f, S \ {c})

\* the checks mapping cut at the first check that raised
AuditChecks_StopsAtError(outcome) ==
    LET kept == { i \in 1..Len(CheckNames) :
                    \A j \in 1..(i - 1) : ~outcome[CheckNames[j]].raised }
    IN  [c \in { CheckNames[i] : i \in kept } |-> outcome[c].result]

\* audit_results["checks"]: the dict each check returned, under its key
AuditChecks(outcome) ==
    [c \in CheckSet |-> outcome[c].result]

\* the exceptions connect() and get_connection_params() can raise
ConnectErrors == {"none", "ValueError", "KeyLoadError", "OperationalError",
                  "DatabaseError"}
ParamsErrors  == {"none", "ValueError", "KeyLoadError"}

\* what the warehouse answers to the four queries of one audit
AuditInputs ==
    [st : StorageInputs, nw : NetworkInputs, ac : AccessInputs, mo : MonitoringInputs]

\* the five check methods as the audit calls them, in the order of the dict
AuditOutcome(co_raised, params_raised, x) ==
    [storage_security |-> StorageCheck(co_raised, params_raised, x.st),
     network_security |-> NetworkCheck(co_raised = "none", x.nw),
     access_controls  |-> AccessCheck(co_raised = "none", x.ac),
     encryption       |-> EncryptionCheck,
     monitoring       |-> MonitoringCheck(co_raised = "none", x.mo)]

\* the score (lines 39-54) and the value the audit returns, from the
\* outcome of the check methods and the checks dict filled from them
AuditReturn(outcome, checks, x) ==
    LET score == SecurityScore([c \in DOMAIN checks |-> checks[c].status])
    IN  [leaks   |-> SumOver([c \in CheckSet |-> outcome[c].leak], CheckSet),
         results |-> [overall_status  |-> OverallStatus(score),
                      security_score  |-> score,
                      checks          |-> checks,
                      recommendations |-> << >>,
                      critical_issues |-> << >>],
         raising |-> { c \in CheckSet : outcome[c].raised },
         answers |-> [nw |-> IF outcome.network_security.raised THEN NoRet ELSE x.nw,
                      ac |-> IF outcome.access_controls.raised THEN NoRet ELSE x.ac,
                      mo |-> IF outcome.monitoring.raised THEN NoRet ELSE x.mo],
         ran     |-> DOMAIN checks,
         queries |-> SumOver([c \in CheckSet |-> outcome[c].queries], CheckSet)]

\* run_comprehensive_security_audit() as a function of what its calls do:
\* the value returned, the cursors left open, the checks that raised and
\* ran, the answers of the queries that succeeded, and the queries sent
AuditPure(co_raised, params_raised, x) ==
    AuditReturn(AuditOutcome(co_raised, params_raised, x),
                AuditChecks(AuditOutcome(co_raised, params_raised, x)), x)

\* AuditPure on every input, each computed once
AuditOn ==
    [co_raised \in ConnectErrors, params_raised \in ParamsErrors, x \in AuditInputs |->
        AuditPure(co_raised, params_raised, x)]

\* an audit on the manager's state, from what its connect did (co) and what
\* the audit did after it (out)
AuditRecord(co, out) ==
    [handle   |-> co.handle,
     attempts |-> co.attempts,
     leaks    |-> out.leaks,
     results  |-> out.results,
     trace    |-> [connected      |-> connection # 0,
                   connect_raised |-> co.raised,
                   raising        |-> out.raising,
                   ran            |-> out.ran,
                   queries        |-> out.queries,
                   answers        |-> out.answers]]

\* run_comprehensive_security_audit() on the manager's state: the storage
\* check connects a manager that has no connection
AuditOf(key_loads, net, x) ==
    AuditRecord(EnsureConnection(key_loads, net),
                AuditOn[EnsureConnection(key_loads, net).raised,
                        GetConnectionParams(settings, key_loads).raised, x])

\* the effect of an audit on the manager
ApplyAudit(a) ==
    /\ (IF a.handle # 0 THEN 0 ELSE cursors) + a.leaks <= MaxCursors
    /\ attempts' = a.attempts
    /\ IF a.handle # 0
       THEN /\ connection' = a.handle
            /\ live' = live \cup {a.handle}
       ELSE UNCHANGED << connection, live >>
    /\ cursors' = (IF a.handle # 0 THEN 0 ELSE cursors) + a.leaks
    /\ audit_trace' = a.trace

\* run_comprehensive_security_audit()
RunComprehensiveSecurityAudit ==
    \E ci \in ConnectInputs, x \in AuditInputs :
        \E a \in { AuditOf(ci[1], ci[2], x) } :
            /\ CanEnsure(ci[1], ci[2])
            /\ ApplyAudit(a)
            /\ last' = [op |-> "run_comprehensive_security_audit", raised |-> "none",
                        opened |-> a.handle, ret |-> a.results]
            /\ UNCHANGED << settings, engine, session_maker, disposed, nextEngine,
                            classifierVars, scoringVars, mainVars, recitationVars >>

(***************************************************************************)
(* SecurityValidator.generate_security_report                              *)
(***************************************************************************)
RECURSIVE UpperFrom(_, _)
UpperFrom(s, i) ==
    IF i > Len(s) THEN ""
    ELSE LET c == SubSeq(s, i, i)
         IN  (IF \E j \in 1..26 : SubSeq(LowerLetters, j, j) = c
              THEN LET j == CHOOSE k \in 1..26 : SubSeq(LowerLetters, k, k) = c
                   IN  SubSeq(UpperLetters, j, j)
              ELSE c) \o UpperFrom(s, i + 1)

\* str.upper()
Upper(s) == UpperFrom(s, 1)

\* check_name.upper() for the five keys, each computed once
UpperCheckNames == [i \in 1..Len(CheckNames) |-> Upper(CheckNames[i])]

RECURSIVE IssueLines(_, _)
\* one line per issue
IssueLines(issues, i) ==
    IF i > Len(issues) THEN << >>
    ELSE << "      - " \o issues[i] >> \o IssueLines(issues, i + 1)

RECURSIVE CheckLines(_, _)
\* the lines of the checks from the i-th key on, in the order of the dict:
\* one block for each key the dict has
CheckLines(audit, i) ==
    IF i > Len(CheckNames) THEN << >>
    ELSE IF CheckNames[i] \notin DOMAIN audit.checks THEN CheckLines(audit, i + 1)
    ELSE LET check_result == audit.checks[CheckNames[i]]
         IN  << "  " \o UpperCheckNames[i] \o ": " \o check_result.status >>
             \o (IF check_result.issues # << >>
                 THEN << "    Issues:" >> \o IssueLines(check_result.issues, 1)
                 ELSE << >>)
             \o CheckLines(audit, i + 1)

\* the text with the two closing blocks printed whether or not they are empty
RenderReport_AlwaysBlocks(audit) ==
    << "SNOWFLAKE SECURITY AUDIT REPORT",
       "================================",
       "Overall Status: " \o audit.overall_status,
       "Security Score: " \o ToString(audit.security_score) \o "/100",
       "",
       "SECURITY CHECKS:" >>
    \o CheckLines(audit, 1)
    \o << "", "CRITICAL ISSUES:" >> \o audit.critical_issues
    \o << "", "RECOMMENDATIONS:" >> \o audit.recommendations

\* the text built from an audit, line by line; the Timestamp line, which
\* carries the clock's reading at the time of the audit, is left out
RenderReport(audit) ==
    << "SNOWFLAKE SECURITY AUDIT REPORT",
       "================================",
       "Overall Status: " \o audit.overall_status,
       "Security Score: " \o ToString(audit.security_score) \o "/100",
       "",
       "SECURITY CHECKS:" >>
    \o CheckLines(audit, 1)
    \o (IF audit.critical_issues # << >>
        THEN << "", "CRITICAL ISSUES:" >> \o audit.critical_issues
        ELSE << >>)
    \o (IF audit.recommendations # << >>
        THEN << "", "RECOMMENDATIONS:" >> \o audit.recommendations
        ELSE << >>)

\* RenderReport on every audit the model can return, each computed once
ReportOn ==
    [co_raised \in ConnectErrors, params_raised \in ParamsErrors, x \in AuditInputs |->
        RenderReport(AuditOn[co_raised, params_raised, x].results)]

\* generate_security_report(): runs an audit of its own and renders it
GenerateSecurityReport ==
    \E ci \in ConnectInputs, x \in AuditInputs :
        \E a \in { AuditOf(ci[1], ci[2], x) } :
            /\ CanEnsure(ci[1], ci[2])
            /\ ApplyAudit(a)
            /\ last' = [op |-> "generate_security_report", raised |-> "none",
                        opened |-> a.handle, ret |-> ReportOn[EnsureConnection(ci[1], ci[2]).raised,
                                        GetConnectionParams(settings, ci[1]).raised,
                                        x]]
            /\ UNCHANGED << settings, engine, session_maker, disposed, nextEngine,
                            classifierVars, scoringVars, mainVars, recitationVars >>

(***************************************************************************)
(* The validator's specification: audits and reports in any order on a     *)
(* manager that the first storage check connects                           *)
(***************************************************************************)
InitAudit ==
    /\ settings \in [SNOWFLAKE_PASSWORD : Credentials,
                     SNOWFLAKE_PRIVATE_KEY_PATH : {""}]
    /\ ManagerInit
    /\ RecitationIdle
    /\ ClassifierIdle
    /\ ScoringIdle
    /\ audit_trace = NoAudit
    /\ MainIdle

NextAudit ==
    \/ RunComprehensiveSecurityAudit
    \/ GenerateSecurityReport

SpecAudit == InitAudit /\ [][NextAudit]_vars

(***************************************************************************)
(* Properties of the audit (checked under SpecAudit)                       *)
(***************************************************************************)
AuditReturned == last.op = "run_comprehensive_security_audit"

\* C12: with a live connection the audit returns a report whose checks
\* mapping has exactly the five entries, whichever checks raise: no
\* exception leaves the audit, and every check runs.
C12_FiveEntriesAlways ==
    (AuditReturned /\ audit_trace.connected) =>
        /\ last.raised = "none"
        /\ DOMAIN last.ret.checks = CheckSet
        /\ audit_trace.ran = CheckSet

\* the four checks that query all raised, and five entries came back
C12_Witness ==
    /\ AuditReturned
    /\ audit_trace.connected
    /\ audit_trace.raising = CheckSet \ {"encryption"}
    /\ DOMAIN last.ret.checks = CheckSet

QueryingChecks == {"storage_security", "network_security", "access_controls",
                   "monitoring"}

\* C13: a querying check that raised has status ERROR.
C13_RaisedIsError ==
    AuditReturned =>
        \A c \in QueryingChecks :
            c \in audit_trace.raising => last.ret.checks[c].status = "ERROR"

\* C14: an audit started without connection whose connect fails raises the
\* connection error and returns no report.
C14_ConnectFailureAborts ==
    (AuditReturned /\ ~audit_trace.connected /\ audit_trace.connect_raised # "none") =>
        /\ last.raised # "none"
        /\ last.ret = NoRet

\* C18: producing the report's text sends no query and runs no check.
C18_RenderingIsPure ==
    last.op = "generate_security_report" =>
        /\ audit_trace.queries = 0
        /\ audit_trace.ran = {}

(***************************************************************************)
(* secure_snowflake_setup.py run as a script: the import of the settings,  *)
(* main() step by step, and the exit code                                  *)
(***************************************************************************)
\* required_env_vars
RequiredEnvVars == {"SNOWFLAKE_ACCOUNT", "SNOWFLAKE_USER", "SNOWFLAKE_PASSWORD",
                    "SNOWFLAKE_DATABASE", "SNOWFLAKE_SCHEMA", "SNOWFLAKE_WAREHOUSE"}

\* missing_vars: the required variables os.getenv finds unset or empty
MissingVars == RequiredEnvVars \ env

\* main()'s return value after the report is saved, with the ACCEPTABLE
\* threshold in place of the GOOD one
MainResult_Acceptable(score) ==
    IF score >= 60 THEN "True" ELSE "False"

\* `return audit_results['security_score'] >= 75`
MainResult(score) ==
    IF score >= 75 THEN "True" ELSE "False"

\* the process before the script's imports run: a manager module not yet
\* loaded, and an environment with some of the required variables set
InitMain ==
    /\ settings = [SNOWFLAKE_PASSWORD |-> "", SNOWFLAKE_PRIVATE_KEY_PATH |-> ""]
    /\ ManagerInit
    /\ RecitationIdle
    /\ ClassifierIdle
    /\ ScoringIdle
    /\ audit_trace = NoAudit
    /\ pc = "import"
    /\ env \in SUBSET RequiredEnvVars
    /\ network = {}
    /\ audit_results = NoRet
    /\ report = << >>
    /\ report_file = << >>
    /\ success = "unset"
    /\ exit_code = -1
    /\ stdout = {}

\* how get_settings() can go: development mode skips the secrets; the
\* Secrets Manager client fails before it sends anything (no region, no
\* credentials); or the two secrets are requested over the network
SettingsModes == {"debug", "no_client", "fetched"}

\* the import of app.core.config: settings = get_settings().  The values
\* come from the environment, the .env file and the secret, so that the
\* password of the settings need not be the one os.getenv sees.
LoadSettings ==
    /\ pc = "import"
    /\ \E mode \in SettingsModes :
          network' = IF mode = "fetched" THEN {"secretsmanager"} ELSE {}
    /\ settings' \in [SNOWFLAKE_PASSWORD : Credentials,
                      SNOWFLAKE_PRIVATE_KEY_PATH : KeyPaths]
    /\ pc' = "check_env"
    /\ UNCHANGED << connection, engine, session_maker, live, disposed, nextEngine,
                    cursors, attempts, last, classifierVars, scoringVars, auditVars,
                    env, audit_results, report, report_file, success, exit_code, stdout, recitationVars >>

\* main() that goes on to the connection test with variables missing
MainCheckEnv_Continues ==
    /\ pc = "check_env"
    /\ pc' = "connect"
    /\ UNCHANGED << managerVars, classifierVars, scoringVars, auditVars,
                    env, network, audit_results, report, report_file, success,
                    exit_code, stdout, recitationVars >>

\* main(), lines 25-46: returns False if a required variable is missing
MainCheckEnv ==
    /\ pc = "check_env"
    /\ IF MissingVars # {}
       THEN /\ success' = "False"
            /\ pc' = "exit"
       ELSE /\ success' = success
            /\ pc' = "connect"
    /\ UNCHANGED << managerVars, classifierVars, scoringVars, auditVars,
                    env, network, audit_results, report, report_file, exit_code, stdout, recitationVars >>

\* main(), lines 50-54: db = SnowflakeConnection(); db.connect(); an
\* exception goes to the except block, which returns False
MainConnect ==
    /\ pc = "connect"
    /\ \E key_loads \in BOOLEAN, net \in NetOutcomes :
        LET co == DoConnect(key_loads, net)
        IN  /\ CanConnect(key_loads, net)
            /\ attempts' = co.attempts
            /\ network' = IF co.attempts > 0 THEN network \cup {"snowflake"} ELSE network
            /\ IF co.raised = "none"
               THEN /\ connection' = co.handle
                    /\ live' = live \cup {co.handle}
                    /\ cursors' = 0
                    /\ success' = success
                    /\ pc' = "validate"
               ELSE /\ UNCHANGED << connection, live, cursors >>
                    /\ success' = "False"
                    /\ pc' = "finally"
            /\ last' = [op |-> "connect", raised |-> co.raised,
                        opened |-> co.handle, ret |-> NoRet]
    /\ UNCHANGED << settings, engine, session_maker, disposed, nextEngine,
                    classifierVars, scoringVars, auditVars,
                    env, audit_results, report, report_file, exit_code, stdout, recitationVars >>

\* main(), lines 57-63: db.validate_bucket_security() on the connection
\* just made; the result is printed
MainValidateBuckets ==
    /\ pc = "validate"
    /\ \E failing \in 0..3 :
       \E volumes \in (IF failing = 1 THEN { << >> }
                       ELSE IF failing = 0 THEN VolumeLists
                       ELSE QuietVolumeLists) :
       \E stages \in (IF failing \in {1, 2} \/ VolumesRaise(volumes)
                      THEN { << >> }
                      ELSE IF failing = 0 THEN StageUrlLists
                      ELSE QuietStageUrlLists) :
       \E policies \in (IF failing = 0 /\ ~VolumesRaise(volumes) /\ ~StagesRaise(stages)
                        THEN 0..1 ELSE {0}) :
           last' = [op |-> "validate_bucket_security", raised |-> "none",
                    opened |-> 0,
                    ret |-> [checks |-> SecurityChecks(volumes, stages,
                                                       policies, failing),
                             urls |-> { volumes[i].url : i \in 1..Len(volumes) }]]
    /\ pc' = "audit"
    /\ UNCHANGED << settings, connection, engine, session_maker, live, disposed,
                    nextEngine, cursors, attempts, classifierVars, scoringVars,
                    auditVars, env, network, audit_results, report, report_file,
                    success, exit_code, stdout, recitationVars >>

\* main(), lines 66-90: audit_results = run_comprehensive_security_audit();
\* the score, the status and the checks are printed
MainAudit ==
    /\ pc = "audit"
    /\ \E ci \in ConnectInputs, x \in AuditInputs :
        \E a \in { AuditOf(ci[1], ci[2], x) } :
            /\ CanEnsure(ci[1], ci[2])
            /\ ApplyAudit(a)
            /\ network' = IF a.attempts > attempts THEN network \cup {"snowflake"}
                          ELSE network
            /\ last' = [op |-> "run_comprehensive_security_audit", raised |-> "none",
                        opened |-> a.handle, ret |-> a.results]
            /\ audit_results' = a.results
            /\ stdout' = IF a.results.critical_issues # << >>
                          THEN stdout \cup {"CRITICAL ISSUES FOUND:"}
                          ELSE stdout
    /\ pc' = "report"
    /\ UNCHANGED << settings, engine, session_maker, disposed, nextEngine,
                    classifierVars, scoringVars,
                    env, report, report_file, success, exit_code, recitationVars >>

\* main(), line 93: report = validator.generate_security_report(), which
\* audits once more
MainReport ==
    /\ pc = "report"
    /\ \E ci \in ConnectInputs, x \in AuditInputs :
        \E a \in { AuditOf(ci[1], ci[2], x) } :
            /\ CanEnsure(ci[1], ci[2])
            /\ ApplyAudit(a)
            /\ network' = IF a.attempts > attempts THEN network \cup {"snowflake"}
                          ELSE network
            /\ report' = ReportOn[EnsureConnection(ci[1], ci[2]).raised,
                                  GetConnectionParams(settings, ci[1]).raised, x]
            /\ last' = [op |-> "generate_security_report", raised |-> "none",
                        opened |-> a.handle, ret |-> report']
    /\ pc' = "save"
    /\ UNCHANGED << settings, engine, session_maker, disposed, nextEngine,
                    classifierVars, scoringVars,
                    env, audit_results, report_file, success, exit_code, stdout, recitationVars >>

\* main(), lines 96-105: the report is written to the file,
\* provide_recommendations() prints its block and the score of
\* audit_results decides the return value; if the file cannot be opened or
\* written the except block returns False
MainSave ==
    /\ pc = "save"
    /\ \E writable \in BOOLEAN :
          IF writable
          THEN /\ report_file' = report
               /\ stdout' = stdout \cup {"RECOMMENDATIONS:"}
               /\ success' = MainResult(audit_results.security_score)
          ELSE /\ report_file' = report_file
               /\ stdout' = stdout
               /\ success' = "False"
    /\ pc' = "finally"
    /\ UNCHANGED << managerVars, classifierVars, scoringVars, auditVars,
                    env, network, audit_results, report, exit_code, recitationVars >>

\* main(), lines 116-117: finally: db.close()
MainFinally ==
    /\ pc = "finally"
    /\ LET m == CloseOf(Manager)
       IN  /\ connection' = m.connection
           /\ engine' = m.engine
           /\ session_maker' = m.session_maker
           /\ live' = m.live
           /\ disposed' = m.disposed
           /\ cursors' = m.cursors
    /\ last' = [op |-> "close", raised |-> "none", opened |-> 0, ret |-> NoRet]
    /\ pc' = "exit"
    /\ UNCHANGED << settings, nextEngine, attempts, classifierVars, scoringVars,
                    auditVars, env, network, audit_results, report, report_file,
                    success, exit_code, stdout, recitationVars >>

\* the script's last lines: sys.exit(1) unless main() returned True
MainExit ==
    /\ pc = "exit"
    /\ exit_code' = IF success = "True" THEN 0 ELSE 1
    /\ pc' = "done"
    /\ UNCHANGED << managerVars, classifierVars, scoringVars, auditVars,
                    env, network, audit_results, report, report_file, success,
                    stdout, recitationVars >>

NextMain ==
    \/ LoadSettings
    \/ MainCheckEnv
    \/ MainConnect
    \/ MainValidateBuckets
    \/ MainAudit
    \/ MainReport
    \/ MainSave
    \/ MainFinally
    \/ MainExit

SpecMain == InitMain /\ [][NextMain]_vars

(***************************************************************************)
(* Properties of the standalone run (checked under SpecMain)               *)
(***************************************************************************)
Finished == pc = "done"

Audited == audit_results # NoRet

\* the score of main()'s audit_results, -1 if main() has none
AuditScore == IF Audited THEN audit_results.security_score ELSE -1

\* C19 as stated: the process exits with code 0 if and only if the audit
\* score is >= 75.
C19_ExitZeroIffScore ==
    Finished => (exit_code = 0 <=> AuditScore >= 75)

\* C19: the process exits with code 0 if and only if the score of main()'s
\* audit is >= 75 and the report file was written; a run with a lower score,
\* with a missing variable, or whose connect failed exits with code 1.
C19_ExitZeroIffScoreAndSaved ==
    Finished =>
        /\ exit_code = 0 <=> (AuditScore >= 75 /\ report_file # << >>)
        /\ exit_code \in {0, 1}
        /\ (Audited /\ AuditScore < 75) => exit_code = 1
        /\ MissingVars # {} => exit_code = 1
        /\ (last.op = "close" /\ ~Audited) => exit_code = 1

\* a run with score 80 that exits with code 0
C19_Witness ==
    /\ Finished
    /\ AuditScore = 80
    /\ report_file # << >>
    /\ exit_code = 0

\* C20 as stated: in a run where a required variable is missing no network
\* call occurs.
C20_NoNetworkCall ==
    MissingVars # {} => network = {}

\* C20: in a run where a required variable is missing main() returns False
\* and connect() is never called: the warehouse is not contacted and the
\* manager is untouched.
C20_NoConnectWhenMissing ==
    MissingVars # {} =>
        /\ "snowflake" \notin network
        /\ last = NoOp
        /\ connection = 0 /\ live = {} /\ attempts = 0
        /\ pc \in {"exit", "done"} => success = "False"
        /\ pc \in {"import", "check_env", "exit", "done"}

\* a run with a missing variable that has ended
C20_Witness ==
    /\ Finished
    /\ MissingVars # {}
    /\ success = "False"
    /\ exit_code = 1

\* C21: the statuses, the score and the overall status main() prints (those
\* of audit_results, which also decide the exit code) are the ones of the
\* report saved to the file: the file is the rendering of audit_results.
C21_SavedReportIsPrintedAudit ==
    report_file # << >> => report_file = RenderReport(audit_results)

\* C22: a non-storage querying check whose query succeeded is PASS or
\* WARNING by one condition: network PASS iff a policy exists, access
\* WARNING iff the role is ACCOUNTADMIN or SECURITYADMIN, monitoring WARNING
\* iff the last hour's query count is zero; none of the three is ever FAIL.
C22_ProbingCheckStatus ==
    AuditReturned =>
        LET checks == last.ret.checks
            x      == audit_trace.answers
            ok(c)  == c \notin audit_trace.raising
        IN  /\ ok("network_security") =>
                  /\ checks.network_security.status \in {"PASS", "WARNING"}
                  /\ checks.network_security.status = "PASS" <=> x.nw.policies >= 1
            /\ ok("access_controls") =>
                  /\ checks.access_controls.status \in {"PASS", "WARNING"}
                  /\ checks.access_controls.status = "WARNING"
                        <=> x.ac.role \in {"ACCOUNTADMIN", "SECURITYADMIN"}
            /\ ok("monitoring") =>
                  /\ checks.monitoring.status \in {"PASS", "WARNING"}
                  /\ checks.monitoring.status = "WARNING" <=> x.mo.recent_queries = 0
            /\ \A c \in {"network_security", "access_controls", "monitoring"} :
                  checks[c].status # "FAIL"

\* the three queries succeeded: a policy exists, the role is SECURITYADMIN,
\* and no query ran in the last hour
C22_Witness ==
    /\ AuditReturned
    /\ audit_trace.raising \cap {"network_security", "access_controls", "monitoring"} = {}
    /\ audit_trace.answers.ac.role = "SECURITYADMIN"
    /\ last.ret.checks.network_security.status = "PASS"
    /\ last.ret.checks.access_controls.status = "WARNING"
    /\ last.ret.checks.monitoring.status = "WARNING"

\* C23: in every report the encryption check is PASS with no issues,
\* whatever the connection and the other checks do; so the score of every
\* report is at least 20.
C23_EncryptionAlwaysPass ==
    AuditReturned =>
        /\ last.ret.checks.encryption.status = "PASS"
        /\ last.ret.checks.encryption.issues = << >>
        /\ last.ret.security_score >= 20

\* an audit whose connect failed: encryption is the only PASS, the score is 20
C23_Witness ==
    /\ AuditReturned
    /\ ~audit_trace.connected
    /\ audit_trace.connect_raised # "none"
    /\ last.ret.checks.encryption.status = "PASS"
    /\ last.ret.security_score = 20

(***************************************************************************)
(* Further properties of the connection manager (checked under Spec)       *)
(***************************************************************************)
\* the exceptions get_connection_params and snowflake.connector.connect raise
ConnectCauses == {"ValueError", "KeyLoadError", "OperationalError", "DatabaseError"}

\* the last operation was a connect() that raised
ConnectFailed == last.op = "connect" /\ last.raised # "none"

\* C24: a connect() that fails raises the underlying cause, stores no handle
\* (self.connection and the open handles are what they were before the
\* call), and close() can be called afterwards.
C24_FailedConnectStoresNothing ==
    /\ [](ConnectFailed => (last.raised \in ConnectCauses /\ last.opened = 0
                            /\ ENABLED Close))
    /\ [][ConnectFailed' => (connection' = connection /\ live' = live)]_vars

\* a connect() whose login was refused, on a manager without connection
C24_Witness ==
    /\ ConnectFailed
    /\ last.raised = "DatabaseError"
    /\ attempts = 1
    /\ connection = 0

\* the classification of the rows' URLs: private if the URL has a private
\* indicator and no public one; the empty URL is not private
RowClassifiedPrivate ==
    [u \in { r.url : r \in VolumeRows } |-> PrivateIndicator(u) /\ ~PublicIndicator(u)]

\* C25: validate_bucket_security reports external_volumes_private = True
\* only if the URL of every external volume is classified as private.
C25_FlagOnlyIfAllPrivate ==
    (/\ last.op = "validate_bucket_security"
     /\ last.raised = "none"
     /\ "external_volumes_private" \in last.ret.checks) =>
        \A u \in last.ret.urls : RowClassifiedPrivate[u]

\* C26: a session get_session() returns is never bound to an engine that
\* close() has disposed: after close() the next get_session() builds a new
\* engine and session factory.
C26_SessionNeverOnDisposedEngine ==
    (last.op = "get_session" /\ last.raised = "none") =>
        last.ret.bound_to \notin disposed

\* the lines of a rendered report that open one of its two closing blocks
BlockHeadings(text) ==
    { text[i] : i \in 1..Len(text) } \cap {"CRITICAL ISSUES:", "RECOMMENDATIONS:"}

\* the statuses of main()'s audit
AuditStatuses ==
    { audit_results.checks[c].status : c \in DOMAIN audit_results.checks }

\* C27 as stated: critical_issues and recommendations are empty in every
\* audit, so neither the rendered report nor the summary on stdout has a
\* CRITICAL ISSUES or a RECOMMENDATIONS block.
C27_NoBlocksAnywhere ==
    /\ Audited => (/\ audit_results.critical_issues = << >>
                   /\ audit_results.recommendations = << >>)
    /\ BlockHeadings(report) = {}
    /\ stdout = {}

\* C27: critical_issues and recommendations are empty in every audit, so the
\* rendered report has neither block and the summary on stdout has no
\* CRITICAL ISSUES block; the summary has the RECOMMENDATIONS block of
\* provide_recommendations exactly when the report file was written.
C27_NoBlocksFromAudit ==
    /\ Audited => (/\ audit_results.critical_issues = << >>
                   /\ audit_results.recommendations = << >>)
    /\ BlockHeadings(report) = {}
    /\ BlockHeadings(report_file) = {}
    /\ "CRITICAL ISSUES FOUND:" \notin stdout
    /\ "RECOMMENDATIONS:" \in stdout <=> report_file # << >>

C27_Witness ==
    /\ pc = "finally"
    /\ Audited
    /\ {"FAIL", "ERROR"} \subseteq AuditStatuses
    /\ report_file = report
    /\ report # << >>
    /\ stdout = {"RECOMMENDATIONS:"}

(***************************************************************************)
(* RecitationService: the write operations                                 *)
(***************************************************************************)
\* how a call on the cursor or the connection can go
CallOutcomes == {"ok", "raises"}

\* get_recitation_by_id() called from update_recitation on a manager that
\* has a connection: it opens and closes a cursor of its own and re-raises
\* what its query raised
GetRecitationById(select) ==
    IF select = "ok" THEN [call |-> "select", raised |-> "none"]
    ELSE [call |-> "select_raised", raised |-> "ProgrammingError"]

\* the try / except / finally of a write operation, from the cursor on:
\* statement says whether the try block sends a statement and commits,
\* reread whether it calls get_recitation_by_id before it returns.  The
\* except block rolls back and re-raises; the finally block closes the cursor.
WriteBody(statement, execute, commit, reread, select, rollback) ==
    LET sent == IF ~statement THEN [calls |-> << >>, raised |-> "none"]
                ELSE IF execute = "raises"
                THEN [calls |-> << "execute_raised" >>, raised |-> "ProgrammingError"]
                ELSE IF commit = "raises"
                THEN [calls |-> << "execute", "commit_raised" >>,
                      raised |-> "OperationalError"]
                ELSE [calls |-> << "execute", "commit" >>, raised |-> "none"]
        read == IF sent.raised = "none" /\ reread
                THEN [calls  |-> sent.calls \o << GetRecitationById(select).call >>,
                      raised |-> GetRecitationById(select).raised]
                ELSE sent
        handled == IF read.raised = "none" THEN read
                   ELSE IF rollback = "raises"
                   THEN [calls  |-> read.calls \o << "rollback_raised" >>,
                         raised |-> "InterfaceError"]
                   ELSE [calls  |-> read.calls \o << "rollback" >>,
                         raised |-> read.raised]
    IN  [calls |-> << "cursor" >> \o handled.calls \o << "close" >>,
         raised |-> handled.raised]

\* a write operation on the manager: _ensure_connection(), then the cursor
\* and the body; an exception of the connect leaves before the cursor exists
WriteOperation(op, key_loads, net, body) ==
    LET co == EnsureConnection(key_loads, net)
    IN  /\ CanEnsure(key_loads, net)
        /\ attempts' = co.attempts
        /\ IF co.handle # 0
           THEN /\ connection' = co.handle
                /\ live' = live \cup {co.handle}
                /\ cursors' = 0
           ELSE UNCHANGED << connection, live, cursors >>
        /\ calls' = IF co.raised # "none" THEN << >> ELSE body.calls
        /\ last' = [op |-> op,
                    raised |-> IF co.raised # "none" THEN co.raised ELSE body.raised,
                    opened |-> co.handle, ret |-> NoRet]
        /\ UNCHANGED << settings, engine, session_maker, disposed, nextEngine,
                        classifierVars, scoringVars, auditVars, mainVars >>

\* create_recitation(): INSERT, commit, and the object built from the
\* request is returned
CreateRecitation ==
    \E ci \in ConnectInputs, execute, commit, rollback \in CallOutcomes :
        WriteOperation("create_recitation", ci[1], ci[2],
                       WriteBody(TRUE, execute, commit, FALSE, "ok", rollback))

\* update_recitation(): without a field to update it returns
\* get_recitation_by_id() at once; otherwise UPDATE, commit, and
\* get_recitation_by_id() for the value to return, all inside the try
UpdateRecitation ==
    \E ci \in ConnectInputs, updates \in BOOLEAN,
       execute, commit, select, rollback \in CallOutcomes :
        WriteOperation("update_recitation", ci[1], ci[2],
                       WriteBody(updates, execute, commit, TRUE, select, rollback))

\* delete_recitation(): DELETE, commit, and rows_deleted > 0 is returned
DeleteRecitation ==
    \E ci \in ConnectInputs, execute, commit, rollback \in CallOutcomes :
        WriteOperation("delete_recitation", ci[1], ci[2],
                       WriteBody(TRUE, execute, commit, FALSE, "ok", rollback))

(***************************************************************************)
(* The service's specification: write operations on the shared manager,    *)
(* which close() can disconnect between them                               *)
(***************************************************************************)
InitRecitation ==
    /\ settings \in [SNOWFLAKE_PASSWORD : Credentials,
                     SNOWFLAKE_PRIVATE_KEY_PATH : KeyPaths]
    /\ ManagerInit
    /\ RecitationIdle
    /\ ClassifierIdle
    /\ ScoringIdle
    /\ audit_trace = NoAudit
    /\ MainIdle

NextRecitation ==
    \/ CreateRecitation
    \/ UpdateRecitation
    \/ DeleteRecitation
    \/ Close

SpecRecitation == InitRecitation /\ [][NextRecitation]_vars

(***************************************************************************)
(* Properties of the write operations (checked under SpecRecitation)       *)
(***************************************************************************)
WriteOps == {"create_recitation", "update_recitation", "delete_recitation"}

\* how many times the last write operation made one of the calls in es
CallCount(es) == Cardinality({ i \in 1..Len(calls) : calls[i] \in es })

Rollbacks == {"rollback", "rollback_raised"}

\* C28: a write operation that opened its cursor ends its transaction
\* exactly once: commit is called only right after the statement executed,
\* rollback is called only when this call committed nothing, the operation
\* raises after a rollback, and the cursor is closed last on every path.
C28_TransactionEndsOnce ==
    (last.op \in WriteOps /\ calls # << >>) =>
        /\ \A i \in 1..Len(calls) :
              calls[i] \in {"commit", "commit_raised"} =>
                  (i > 1 /\ calls[i - 1] = "execute")
        /\ CallCount(Rollbacks) > 0 => CallCount({"commit"}) = 0
        /\ CallCount({"commit"} \cup Rollbacks) <= 1
        /\ CallCount({"execute", "execute_raised"}) > 0 =>
              CallCount({"commit"} \cup Rollbacks) = 1
        /\ CallCount(Rollbacks) > 0 => last.raised # "none"
        /\ calls[1] = "cursor"
        /\ calls[Len(calls)] = "close"
        /\ CallCount({"close"}) = 1

====
